---- MODULE Spec2Model ----
(***************************************************************************)
(* Route simulation and scoring of the PizzaBot repository: basic.py       *)
(* (arrival_times, evaluate, freshness_function, parse_freshness,          *)
(* instruction_file), mip.py (optimize_mip) and heuristic.py               *)
(* (optimize_heuristic).                                                   *)
(*                                                                         *)
(* Clock values are minutes since midnight of the current day.  A datetime *)
(* is an integer that may exceed a day; a "HH:MM" string is the pair       *)
(* <<hours, minutes>>; the string "unserved" is the one-element tuple      *)
(* <<"unserved">>.  float('inf') is the extended number Inf.               *)
(***************************************************************************)
EXTENDS Integers, Sequences, FiniteSets, TLC

\* Largest number of order ids a solution file holds, all bots together.
MaxSolLen == 2

Nodes == {"A", "B", "C"}
BotIds == {"b1", "b2"}
OrderIds == {"o1", "o2"}
\* Order of the keys of inst.orders (the order of the lines of [orders]).
OrderList == <<"o1", "o2">>

Max(a, b) == IF a >= b THEN a ELSE b

RECURSIVE SumSeq(_)
SumSeq(s) == IF s = <<>> THEN 0 ELSE Head(s) + SumSeq(Tail(s))

(***************************************************************************)
(* Extended numbers: the values freshness_function compares.               *)
(***************************************************************************)
Fin(n) == [inf |-> FALSE, n |-> n]
Inf == [inf |-> TRUE, n |-> 0]
\* x >= lo, lo an int
ExtGe(x, lo) == x.inf \/ x.n >= lo
\* x < hi, hi an int or float('inf')
ExtLt(x, hi) == ~x.inf /\ (hi.inf \/ x.n < hi.n)

(***************************************************************************)
(* Clock strings.                                                          *)
(***************************************************************************)
strftime(t) == <<(t \div 60) % 24, t % 60>>
strptime(s) == s[1] * 60 + s[2]
UNSERVED == <<"unserved">>
IsUnserved(s) == Len(s) = 1

(***************************************************************************)
(* Dictionaries: functions whose domain is the set of keys.                *)
(***************************************************************************)
EmptyDict == [k \in {} |-> <<>>]
DictSet(d, k, v) == [x \in (DOMAIN d) \cup {k} |-> IF x = k THEN v ELSE d[x]]

(***************************************************************************)
(* parse_freshness, from the (start, score) pairs on.                      *)
(***************************************************************************)
parse_freshness(pairs) ==
  [i \in 1..Len(pairs) |->
     [lo |-> pairs[i][1],
      hi |-> IF i < Len(pairs) THEN Fin(pairs[i + 1][1]) ELSE Inf,
      score |-> pairs[i][2]]]

(***************************************************************************)
(* freshness_function: the first interval that holds the offset; the score *)
(* of the last interval looked at when none does.                          *)
(***************************************************************************)
RECURSIVE FreshScan(_, _, _)
FreshScan(arrival_difference, freshness_list, i) ==
  LET interval == freshness_list[i] IN
  IF ExtGe(arrival_difference, interval.lo) /\ ExtLt(arrival_difference, interval.hi)
    THEN interval.score
  ELSE IF i = Len(freshness_list) THEN interval.score
  ELSE FreshScan(arrival_difference, freshness_list, i + 1)

RECURSIVE FreshScanLe(_, _, _)
FreshScanLe(arrival_difference, freshness_list, i) ==
  LET interval == freshness_list[i] IN
  IF ExtGe(arrival_difference, interval.lo)
     /\ (ExtLt(arrival_difference, interval.hi) \/ arrival_difference = interval.hi)
    THEN interval.score
  ELSE IF i = Len(freshness_list) THEN interval.score
  ELSE FreshScanLe(arrival_difference, freshness_list, i + 1)

freshness_function_le(arrival_difference, freshness_list) ==
  FreshScanLe(arrival_difference, freshness_list, 1)

freshness_function(arrival_difference, freshness_list) ==
  FreshScan(arrival_difference, freshness_list, 1)

(***************************************************************************)
(* The graph and find_transit_time / nx.dijkstra_path.                     *)
(***************************************************************************)
HasEdge(g, u, v) == \E e \in g : e[1] = u /\ e[2] = v
Weight(g, u, v) == (CHOOSE e \in g : e[1] = u /\ e[2] = v)[3]

\* The simple paths of g from u to v, as node sequences with both ends.
Paths(g, u, v) ==
  {p \in UNION {[1..n -> Nodes] : n \in 1..Cardinality(Nodes)} :
     /\ p[1] = u
     /\ p[Len(p)] = v
     /\ \A i, j \in 1..Len(p) : i # j => p[i] # p[j]
     /\ \A i \in 1..(Len(p) - 1) : HasEdge(g, p[i], p[i + 1])}

RECURSIVE PathCost(_, _)
PathCost(g, p) ==
  IF Len(p) <= 1 THEN 0 ELSE Weight(g, p[1], p[2]) + PathCost(g, Tail(p))

HasPath(g, u, v) == Paths(g, u, v) # {}

\* Every path of least cost; the solver returns one of them.
dijkstra_paths(g, u, v) ==
  {p \in Paths(g, u, v) : \A q \in Paths(g, u, v) : PathCost(g, p) <= PathCost(g, q)}

find_transit_time(start, end, g) ==
  PathCost(g, CHOOSE p \in dijkstra_paths(g, start, end) : TRUE)

(***************************************************************************)
(* The instances and the solutions the operations are run on.              *)
(***************************************************************************)
\* A->B 1, B->C 2: the second scenario of the specification, with a way back.
Graph1 == {<<"A", "B", 1>>, <<"B", "C", 2>>, <<"C", "A", 1>>}
\* A->B 3, B->C 2: the first scenario; A->C ties with A->B->C.
Graph2 == {<<"A", "B", 3>>, <<"B", "C", 2>>, <<"A", "C", 5>>, <<"C", "B", 4>>}
\* Nothing leaves C.
Graph3 == {<<"A", "B", 1>>, <<"B", "C", 2>>}
Graphs == {Graph1, Graph2, Graph3}

\* 18:00 and 23:55
Starts == {18 * 60, 23 * 60 + 55}
HorizonEnd == <<23, 59>>
\* Ready times, as minutes after the start of the horizon.
ReadyDelays == {0, 3}

FreshPairs1 == << <<0, 100>>, <<5, 0>> >>
FreshPairs2 == << <<0, 10>>, <<3, 7>>, <<6, 2>> >>
\* First interval starts after 0.
FreshPairs3 == << <<2, 9>>, <<4, 1>> >>
\* Starts not sorted.
FreshPairs4 == << <<0, 10>>, <<6, 7>>, <<3, 2>> >>

Order(restaurant, customer, ready, pairs) ==
  [restaurant |-> restaurant, customer |-> customer, ready |-> ready,
   freshness |-> parse_freshness(pairs)]

Instances ==
  {[graph |-> g,
    time_horizon |-> [start |-> s, end |-> strptime(HorizonEnd)],
    bots |-> [b \in BotIds |-> IF b = "b1" THEN "A" ELSE "C"],
    orders |-> [o \in OrderIds |->
                  IF o = "o1" THEN Order("B", "C", s + d1, FreshPairs1)
                  ELSE Order(rc[1], rc[2], s + d2, FreshPairs2)]] :
     g \in Graphs, s \in Starts, d1 \in ReadyDelays, d2 \in ReadyDelays,
     rc \in {<<"C", "A">>, <<"B", "B">>}}

\* The sequences of at most n order ids.
Seqs(n) == UNION {[1..k -> OrderIds] : k \in 0..n}

\* A solution is the list of the lines of the solution file, <<bot, orders>>,
\* one line per bot at most.
Solutions ==
  {<<>>}
  \cup {<< <<b, q>> >> : b \in BotIds, q \in Seqs(MaxSolLen)}
  \cup {<< <<b[1], q[1]>>, <<b[2], q[2]>> >> :
          b \in {<<"b1", "b2">>, <<"b2", "b1">>},
          q \in {qq \in Seqs(MaxSolLen) \X Seqs(MaxSolLen) :
                   Len(qq[1]) + Len(qq[2]) <= MaxSolLen}}

\* The order ids of a solution, with repetitions.
RECURSIVE Flatten(_)
Flatten(sol) == IF sol = <<>> THEN <<>> ELSE Head(sol)[2] \o Flatten(Tail(sol))

NoDuplicates(sol) ==
  LET f == Flatten(sol) IN \A i, j \in 1..Len(f) : i # j => f[i] # f[j]

Served(sol) == {Flatten(sol)[i] : i \in 1..Len(Flatten(sol))}

(***************************************************************************)
(* One order of a bot's sequence in arrival_times: the successive values   *)
(* of time_dt, and what is recorded.                                       *)
(***************************************************************************)
ReachRestaurant(t, transit_time) == t + transit_time
EnterRestaurant(t) == t + 1
WaitReadyNever(t, ready_dt) == t
WaitReadyAlways(t, ready_dt) == ready_dt
WaitReady(t, ready_dt) == IF t < ready_dt THEN ready_dt ELSE t
ExitRestaurant(t) == t + 1
ReachCustomer(t, transit_time) == t + transit_time
DeliveryProcessShort(t) == t + 4
DeliveryProcess(t) == t + 5

CanServe(I, loc, o) ==
  /\ HasPath(I.graph, loc, I.orders[o].restaurant)
  /\ HasPath(I.graph, I.orders[o].restaurant, I.orders[o].customer)

ServeOrder(I, bot, loc, t, o) ==
  LET restaurant_location == I.orders[o].restaurant
      customer_location == I.orders[o].customer
      ready_dt == I.orders[o].ready
      reach == ReachRestaurant(t, find_transit_time(loc, restaurant_location, I.graph))
      enter == EnterRestaurant(reach)
      wait == WaitReady(enter, ready_dt)
      exit == ExitRestaurant(wait)
      arrive == ReachCustomer(exit,
                  find_transit_time(restaurant_location, customer_location, I.graph))
  IN [bot |-> bot, order |-> o, from |-> loc, t0 |-> t, ready |-> ready_dt,
      reach |-> reach, enter |-> enter, wait |-> wait, exit |-> exit,
      arrive |-> arrive, recorded |-> strftime(arrive),
      free |-> DeliveryProcess(arrive), loc |-> customer_location]

\* The closing loop of arrival_times over inst.orders.
RECURSIVE MarkFrom(_, _)
MarkFrom(keys, arr) ==
  IF keys = <<>> THEN arr
  ELSE MarkFrom(Tail(keys),
                IF Head(keys) \in DOMAIN arr THEN arr
                ELSE DictSet(arr, Head(keys), UNSERVED))

MarkUnservedNone(I, arr) == arr
MarkUnserved(I, arr) == MarkFrom(OrderList, arr)

(***************************************************************************)
(* State.                                                                  *)
(***************************************************************************)
VARIABLES
  inst,           \* read_input(input_file)
  solution,       \* read_solution(solution_file)
  inst_global,    \* the module global `inst` of basic.py: <<>> when unbound
  op,             \* the function called
  pc,             \* where it is: "idle", a loop position, "done", "raised"
  err,            \* the exception raised
  bi, oi,         \* position of the loops over the solution: line, order
  start_location, \* arrival_times
  time_dt,        \* arrival_times
  arrival_t,      \* the dict arrival_times builds and returns
  log,            \* what arrival_times prints, one record per order served
  total_score,    \* evaluate
  terms,          \* the values evaluate adds to total_score, in order
  printed,        \* the solution value evaluate prints: <<>> before
  ret,            \* the value returned: <<>> is None
  location,       \* instruction_file
  script,         \* the lines instruction_file writes
  output_file,    \* the optimizer's output file: <<>> while not written
  fcall           \* the last direct call of freshness_function

vars == <<inst, solution, inst_global, op, pc, err, bi, oi, start_location,
          time_dt, arrival_t, log, total_score, terms, printed, ret,
          location, script, output_file, fcall>>

NoCall == [called |-> FALSE, offset |-> Inf, list |-> <<>>, score |-> 0]

Init ==
  /\ inst \in Instances
  /\ solution \in Solutions
  /\ inst_global \in {<<>>, <<inst>>}
  /\ op = "none"
  /\ pc = "idle"
  /\ err = "none"
  /\ bi = 1
  /\ oi = 1
  /\ start_location = "A"
  /\ time_dt = 0
  /\ arrival_t = EmptyDict
  /\ log = <<>>
  /\ total_score = 0
  /\ terms = <<>>
  /\ printed = <<>>
  /\ ret = <<>>
  /\ location = "A"
  /\ script = <<>>
  /\ output_file = <<>>
  /\ fcall = NoCall

ConstVars == <<inst, solution, inst_global>>

(***************************************************************************)
(* arrival_times                                                           *)
(***************************************************************************)
\* lines 357-363; evaluate reaches them through its call at line 444
EnterArrivalTimes ==
  /\ arrival_t' = EmptyDict
  /\ time_dt' = inst.time_horizon.start
  /\ bi' = 1
  /\ oi' = 1
  /\ log' = <<>>
  /\ pc' = "at_bot"

CallArrivalTimes ==
  /\ pc = "idle"
  /\ op' = "arrival_times"
  /\ EnterArrivalTimes
  /\ UNCHANGED <<ConstVars, err, start_location, total_score, terms, printed,
                 ret, location, script, output_file, fcall>>

\* line 366-367: the next bot of the solution
AtBot ==
  /\ pc = "at_bot"
  /\ bi <= Len(solution)
  /\ start_location' = inst.bots[solution[bi][1]]
  /\ oi' = 1
  /\ pc' = "at_order"
  /\ UNCHANGED <<ConstVars, op, err, bi, time_dt, arrival_t, log, total_score,
                 terms, printed, ret, location, script, output_file, fcall>>

\* line 368, sequence exhausted: on to the next bot
AtBotDone ==
  /\ pc = "at_order"
  /\ oi > Len(solution[bi][2])
  /\ bi' = bi + 1
  /\ pc' = "at_bot"
  /\ UNCHANGED <<ConstVars, op, err, oi, start_location, time_dt, arrival_t, log,
                 total_score, terms, printed, ret, location, script,
                 output_file, fcall>>

\* lines 368-413: one order
AtServe ==
  /\ pc = "at_order"
  /\ oi <= Len(solution[bi][2])
  /\ LET order == solution[bi][2][oi] IN
     /\ CanServe(inst, start_location, order)
     /\ LET e == ServeOrder(inst, solution[bi][1], start_location, time_dt, order) IN
        /\ arrival_t' = DictSet(arrival_t, order, e.recorded)
        /\ time_dt' = e.free
        /\ start_location' = e.loc
        /\ log' = Append(log, e)
  /\ oi' = oi + 1
  /\ UNCHANGED <<ConstVars, op, pc, err, bi, total_score, terms, printed, ret,
                 location, script, output_file, fcall>>

\* lines 380 and 401: nx.dijkstra_path_length raises when there is no path
AtNoPath ==
  /\ pc = "at_order"
  /\ oi <= Len(solution[bi][2])
  /\ ~CanServe(inst, start_location, solution[bi][2][oi])
  /\ pc' = "raised"
  /\ err' = "NetworkXNoPath"
  /\ UNCHANGED <<ConstVars, op, bi, oi, start_location, time_dt, arrival_t, log,
                 total_score, terms, printed, ret, location, script,
                 output_file, fcall>>

\* lines 415-420: the orders left, and the return
AtUnserved ==
  /\ pc = "at_bot"
  /\ bi > Len(solution)
  /\ arrival_t' = MarkUnserved(inst, arrival_t)
  /\ IF op = "arrival_times"
       THEN /\ pc' = "done"
            /\ ret' = <<arrival_t'>>
            /\ UNCHANGED <<bi, oi>>
       ELSE /\ pc' = "ev_bot"
            /\ bi' = 1
            /\ oi' = 1
            /\ UNCHANGED ret
  /\ UNCHANGED <<ConstVars, op, err, start_location, time_dt, log, total_score,
                 terms, printed, location, script, output_file, fcall>>

(***************************************************************************)
(* evaluate                                                                *)
(***************************************************************************)
\* lines 454-460: the term of one order of a bot's sequence
ServedTerm(I, arr, o) ==
  LET ready_dt == I.orders[o].ready
      arrival_dt == strptime(arr[o])
      minutes_delta == arrival_dt - ready_dt
  IN [order |-> o, kind |-> "served", offset |-> Fin(minutes_delta),
      score |-> freshness_function(Fin(minutes_delta), I.orders[o].freshness)]

\* lines 463-466: the terms of the orders marked unserved
RECURSIVE UnservedFrom(_, _, _)
UnservedFrom(keys, I, arr) ==
  IF keys = <<>> THEN <<>>
  ELSE (IF IsUnserved(arr[Head(keys)])
          THEN <<[order |-> Head(keys), kind |-> "unserved", offset |-> Inf,
                  score |-> freshness_function(Inf, I.orders[Head(keys)].freshness)]>>
          ELSE <<>>)
       \o UnservedFrom(Tail(keys), I, arr)

UnservedTermsNone(I, arr) == <<>>
UnservedTerms(I, arr) == UnservedFrom(OrderList, I, arr)

Scores(ts) == [i \in 1..Len(ts) |-> ts[i].score]

\* lines 438-444
CallEvaluate ==
  /\ pc = "idle"
  /\ op' = "evaluate"
  /\ total_score' = 0
  /\ terms' = <<>>
  /\ EnterArrivalTimes
  /\ UNCHANGED <<ConstVars, err, start_location, printed, ret, location, script,
                 output_file, fcall>>

\* lines 447-448
EvBot ==
  /\ pc = "ev_bot"
  /\ bi <= Len(solution)
  /\ oi' = 1
  /\ pc' = "ev_order"
  /\ UNCHANGED <<ConstVars, op, err, bi, start_location, time_dt, arrival_t, log,
                 total_score, terms, printed, ret, location, script,
                 output_file, fcall>>

\* line 449, sequence exhausted
EvBotDone ==
  /\ pc = "ev_order"
  /\ oi > Len(solution[bi][2])
  /\ bi' = bi + 1
  /\ pc' = "ev_bot"
  /\ UNCHANGED <<ConstVars, op, err, oi, start_location, time_dt, arrival_t, log,
                 total_score, terms, printed, ret, location, script,
                 output_file, fcall>>

\* lines 449-460
EvScore ==
  /\ pc = "ev_order"
  /\ oi <= Len(solution[bi][2])
  /\ LET term == ServedTerm(inst, arrival_t, solution[bi][2][oi]) IN
     /\ total_score' = total_score + term.score
     /\ terms' = Append(terms, term)
  /\ oi' = oi + 1
  /\ UNCHANGED <<ConstVars, op, pc, err, bi, start_location, time_dt, arrival_t,
                 log, printed, ret, location, script, output_file, fcall>>

\* lines 462-475: the unserved orders, the printing, and the bare return
EvFinish ==
  /\ pc = "ev_bot"
  /\ bi > Len(solution)
  /\ LET more == UnservedTerms(inst, arrival_t) IN
     /\ total_score' = total_score + SumSeq(Scores(more))
     /\ terms' = terms \o more
  /\ printed' = <<total_score'>>
  /\ ret' = <<>>
  /\ pc' = "done"
  /\ UNCHANGED <<ConstVars, op, err, bi, oi, start_location, time_dt, arrival_t,
                 log, location, script, output_file, fcall>>

(***************************************************************************)
(* instruction_file                                                        *)
(***************************************************************************)
GoTo(path) == [i \in 1..(Len(path) - 1) |-> <<"go to", path[i + 1]>>]

\* lines 545-552
CallInstructionFile ==
  /\ pc = "idle"
  /\ op' = "instruction_file"
  /\ script' = <<>>
  /\ bi' = 1
  /\ oi' = 1
  /\ pc' = "if_bot"
  /\ UNCHANGED <<ConstVars, err, start_location, time_dt, arrival_t, log,
                 total_score, terms, printed, ret, location, output_file, fcall>>

\* lines 553-557
IfBot ==
  /\ pc = "if_bot"
  /\ bi <= Len(solution)
  /\ location' = inst.bots[solution[bi][1]]
  /\ script' = Append(script, <<"[]", solution[bi][1]>>)
  /\ oi' = 1
  /\ pc' = "if_order"
  /\ UNCHANGED <<ConstVars, op, err, bi, start_location, time_dt, arrival_t, log,
                 total_score, terms, printed, ret, output_file, fcall>>

\* line 559, sequence exhausted
IfBotDone ==
  /\ pc = "if_order"
  /\ oi > Len(solution[bi][2])
  /\ bi' = bi + 1
  /\ pc' = "if_bot"
  /\ UNCHANGED <<ConstVars, op, err, oi, start_location, time_dt, arrival_t, log,
                 total_score, terms, printed, ret, location, script,
                 output_file, fcall>>

\* line 561: `inst` is no local of instruction_file and no global of the
\* module unless basic.py runs as the main program (line 592)
IfNameError ==
  /\ pc = "if_order"
  /\ oi <= Len(solution[bi][2])
  /\ inst_global = <<>>
  /\ pc' = "raised"
  /\ err' = "NameError"
  /\ UNCHANGED <<ConstVars, op, bi, oi, start_location, time_dt, arrival_t, log,
                 total_score, terms, printed, ret, location, script,
                 output_file, fcall>>

\* lines 559-588: one order
IfOrder ==
  /\ pc = "if_order"
  /\ oi <= Len(solution[bi][2])
  /\ inst_global # <<>>
  /\ LET order == solution[bi][2][oi]
         restaurant_location == inst_global[1].orders[order].restaurant
         customer_location == inst_global[1].orders[order].customer
     IN \E p1 \in dijkstra_paths(inst.graph, location, restaurant_location) :
        \E p2 \in dijkstra_paths(inst.graph, p1[Len(p1)], customer_location) :
          /\ script' = script \o GoTo(p1) \o << <<"collect food">> >>
                              \o GoTo(p2) \o << <<"deliver food">> >>
          /\ location' = p2[Len(p2)]
  /\ oi' = oi + 1
  /\ UNCHANGED <<ConstVars, op, pc, err, bi, start_location, time_dt, arrival_t,
                 log, total_score, terms, printed, ret, output_file, fcall>>

\* lines 564 and 579: nx.dijkstra_path raises when there is no path; what was
\* written before stays in the file
IfNoPath ==
  /\ pc = "if_order"
  /\ oi <= Len(solution[bi][2])
  /\ inst_global # <<>>
  /\ LET order == solution[bi][2][oi]
         restaurant_location == inst_global[1].orders[order].restaurant
         customer_location == inst_global[1].orders[order].customer
     IN \/ /\ ~HasPath(inst.graph, location, restaurant_location)
           /\ UNCHANGED <<script, location>>
        \/ /\ ~HasPath(inst.graph, restaurant_location, customer_location)
           /\ \E p1 \in dijkstra_paths(inst.graph, location, restaurant_location) :
                /\ script' = script \o GoTo(p1) \o << <<"collect food">> >>
                /\ location' = p1[Len(p1)]
  /\ pc' = "raised"
  /\ err' = "NetworkXNoPath"
  /\ UNCHANGED <<ConstVars, op, bi, oi, start_location, time_dt, arrival_t, log,
                 total_score, terms, printed, ret, output_file, fcall>>

\* line 589
IfReturn ==
  /\ pc = "if_bot"
  /\ bi > Len(solution)
  /\ pc' = "done"
  /\ ret' = <<>>
  /\ UNCHANGED <<ConstVars, op, err, bi, oi, start_location, time_dt, arrival_t,
                 log, total_score, terms, printed, location, script,
                 output_file, fcall>>

(***************************************************************************)
(* The optimizers                                                          *)
(***************************************************************************)
\* mip.py lines 38-49: start and end are datetime.time objects, and
\* `end - start` raises TypeError; nothing is written
CallOptimizeMip ==
  /\ pc = "idle"
  /\ op' = "optimize_mip"
  /\ pc' = "raised"
  /\ err' = "TypeError"
  /\ UNCHANGED <<ConstVars, bi, oi, start_location, time_dt, arrival_t, log,
                 total_score, terms, printed, ret, location, script,
                 output_file, fcall>>

\* heuristic.py line 22: a bare return; nothing is written
CallOptimizeHeuristic ==
  /\ pc = "idle"
  /\ op' = "optimize_heuristic"
  /\ pc' = "done"
  /\ ret' = <<>>
  /\ UNCHANGED <<ConstVars, err, bi, oi, start_location, time_dt, arrival_t, log,
                 total_score, terms, printed, location, script, output_file,
                 fcall>>

(***************************************************************************)
(* freshness_function called on its own                                    *)
(***************************************************************************)
\* Offsets run from -MaxOffset to MaxOffset, and infinity.
MaxOffset == 7
Offsets == {Fin(n) : n \in (0 - MaxOffset)..MaxOffset} \cup {Inf}
FreshLists == {parse_freshness(p) :
                 p \in {FreshPairs1, FreshPairs2, FreshPairs3, FreshPairs4}}

CallFreshness ==
  /\ pc = "idle"
  /\ op' = "freshness_function"
  /\ \E off \in Offsets, f \in FreshLists :
       /\ fcall' = [called |-> TRUE, offset |-> off, list |-> f,
                    score |-> freshness_function(off, f)]
       /\ ret' = <<fcall'.score>>
  /\ pc' = "done"
  /\ UNCHANGED <<ConstVars, err, bi, oi, start_location, time_dt, arrival_t, log,
                 total_score, terms, printed, location, script, output_file>>

Next ==
  \/ CallArrivalTimes \/ AtBot \/ AtBotDone \/ AtServe \/ AtNoPath \/ AtUnserved
  \/ CallEvaluate \/ EvBot \/ EvBotDone \/ EvScore \/ EvFinish
  \/ CallInstructionFile \/ IfBot \/ IfBotDone \/ IfNameError \/ IfOrder
  \/ IfNoPath \/ IfReturn
  \/ CallOptimizeMip \/ CallOptimizeHeuristic
  \/ CallFreshness

Spec == Init /\ [][Next]_vars

TypeOK ==
  /\ pc \in {"idle", "at_bot", "at_order", "ev_bot", "ev_order", "if_bot",
             "if_order", "done", "raised"}
  /\ DOMAIN arrival_t \subseteq OrderIds
  /\ Len(log) <= MaxSolLen
  /\ total_score = SumSeq(Scores(terms))

(***************************************************************************)
(* The operations as functions of their inputs, for the statements that    *)
(* compare a run with another run.                                         *)
(***************************************************************************)
\* lines 368-413 over a whole sequence: [arr, loc, t, ok]
RECURSIVE SimSeq(_, _, _, _, _, _)
SimSeq(I, bot, loc, t, seq, arr) ==
  IF seq = <<>> THEN [arr |-> arr, t |-> t, ok |-> TRUE]
  ELSE IF ~CanServe(I, loc, Head(seq)) THEN [arr |-> arr, t |-> t, ok |-> FALSE]
  ELSE LET e == ServeOrder(I, bot, loc, t, Head(seq)) IN
       SimSeq(I, bot, e.loc, e.free, Tail(seq), DictSet(arr, e.order, e.recorded))

\* lines 366-413 over the lines of a solution; time_dt runs on from bot to bot
RECURSIVE SimLines(_, _, _, _)
SimLines(I, sol, t, arr) ==
  IF sol = <<>> THEN [arr |-> arr, t |-> t, ok |-> TRUE]
  ELSE LET r == SimSeq(I, Head(sol)[1], I.bots[Head(sol)[1]], t, Head(sol)[2], arr) IN
       IF r.ok THEN SimLines(I, Tail(sol), r.t, r.arr) ELSE r

\* arrival_times(instance, solution), when it returns
ArrivalTimesOf(I, sol) ==
  MarkUnserved(I, SimLines(I, sol, I.time_horizon.start, EmptyDict).arr)

\* the total evaluate computes for a solution
EvaluateTotal(I, sol) ==
  LET arr == ArrivalTimesOf(I, sol)
      f == Flatten(sol)
  IN SumSeq([i \in 1..Len(f) |-> ServedTerm(I, arr, f[i]).score])
     + SumSeq(Scores(UnservedTerms(I, arr)))

\* every leg a solution needs has a path
RECURSIVE LegsExist(_, _, _)
LegsExist(I, loc, seq) ==
  seq = <<>> \/ (/\ CanServe(I, loc, Head(seq))
                 /\ LegsExist(I, I.orders[Head(seq)].customer, Tail(seq)))

PathsExist(I, sol) ==
  \A k \in DOMAIN sol : LegsExist(I, I.bots[sol[k][1]], sol[k][2])

\* arrival_times has returned its dictionary
Returned ==
  \/ op = "arrival_times" /\ pc = "done"
  \/ op = "evaluate" /\ pc \in {"ev_bot", "ev_order", "done"}

(***************************************************************************)
(* C1.  Departure from the restaurant.                                     *)
(***************************************************************************)
\* The scenario of the claim: one bot at A serving one order, restaurant B,
\* customer C, ready at the start of the horizon, A->B 1 minute, B->C 2.
C1_Scenario ==
  /\ inst.graph \in {Graph1, Graph3}
  /\ solution = << <<"b1", <<"o1">> >> >>
  /\ inst.orders["o1"].ready = inst.time_horizon.start
  /\ Len(log) = 1

\* C1 as stated: for every served order the bot leaves the restaurant at
\* max(a + 1, ready_time + 1), a the time it reaches the restaurant node; in
\* the scenario the recorded arrival is start + 4 minutes.
C1_AsStated ==
  /\ \A i \in DOMAIN log :
       /\ log[i].reach = log[i].t0
            + find_transit_time(log[i].from, inst.orders[log[i].order].restaurant,
                                inst.graph)
       /\ log[i].exit = Max(log[i].reach + 1, log[i].ready + 1)
  /\ C1_Scenario => log[1].recorded = strftime(inst.time_horizon.start + 4)

\* C1 amended: the bot leaves the restaurant at max(a + 2, ready_time + 1)
\* (the minute to enter is added before the comparison with the ready time,
\* the minute to exit after it); in the scenario the recorded arrival is
\* start + 5 minutes.
C1_Departure ==
  /\ \A i \in DOMAIN log :
       /\ log[i].reach = log[i].t0
            + find_transit_time(log[i].from, inst.orders[log[i].order].restaurant,
                                inst.graph)
       /\ log[i].exit = Max(log[i].reach + 2, log[i].ready + 1)
  /\ C1_Scenario => log[1].recorded = strftime(inst.time_horizon.start + 5)

\* The scenario has run: no wait, the bot left two minutes after reaching B.
C1_Witness ==
  /\ C1_Scenario
  /\ pc = "done"
  /\ log[1].exit = log[1].reach + 2

(***************************************************************************)
(* C2.  Bots are simulated independently of one another.                   *)
(***************************************************************************)
AloneArrivals(I, line) ==
  SimSeq(I, line[1], I.bots[line[1]], I.time_horizon.start, line[2], EmptyDict).arr

\* C2: in a solution without repeated orders, every bot starts its route at
\* its declared location at the start of the horizon, and the arrival times
\* of its orders are those of its sequence simulated alone.
C2_Independent ==
  NoDuplicates(solution) =>
    /\ \A i \in DOMAIN log :
         (i = 1 \/ log[i - 1].bot # log[i].bot) =>
            /\ log[i].from = inst.bots[log[i].bot]
            /\ log[i].t0 = inst.time_horizon.start
    /\ Returned =>
         \A k \in DOMAIN solution : \A j \in DOMAIN solution[k][2] :
            arrival_t[solution[k][2][j]]
              = AloneArrivals(inst, solution[k])[solution[k][2][j]]

(***************************************************************************)
(* C3.  Arrival at the customer and the start of the next order.           *)
(***************************************************************************)
\* C3: the arrival time recorded for an order is the clock time of
\* departure + shortest_path_time(restaurant, customer); the next order of
\* the same bot starts at that customer node, 5 minutes after that arrival.
C3_ArrivalAndNext ==
  /\ \A i \in DOMAIN log :
       LET o == inst.orders[log[i].order] IN
       /\ log[i].arrive
            = log[i].exit + find_transit_time(o.restaurant, o.customer, inst.graph)
       /\ log[i].recorded = strftime(log[i].arrive)
  /\ (log # <<>> /\ pc \in {"at_bot", "at_order"}) =>
       /\ arrival_t[log[Len(log)].order] = log[Len(log)].recorded
       /\ time_dt = log[Len(log)].arrive + 5
  /\ (log # <<>> /\ pc = "at_order" /\ oi > 1) =>
       start_location = inst.orders[log[Len(log)].order].customer
  /\ \A i \in DOMAIN log :
       (i > 1 /\ log[i - 1].bot = log[i].bot) =>
          /\ log[i].from = inst.orders[log[i - 1].order].customer
          /\ log[i].t0 = log[i - 1].arrive + 5

\* A bot has served two orders in a row.
C3_Witness ==
  /\ Len(log) = 2
  /\ log[1].bot = log[2].bot
  /\ log[2].t0 = log[1].arrive + 5

(***************************************************************************)
(* C4.  Nothing is delivered before it is ready.                           *)
(***************************************************************************)
\* C4: the bot leaves the restaurant no earlier than the ready time, the
\* recorded arrival is never earlier than the ready time, and the offset
\* evaluate scores is never negative.
C4_NotBeforeReady ==
  /\ \A i \in DOMAIN log :
       /\ log[i].exit >= log[i].ready
       /\ strptime(log[i].recorded) >= log[i].ready
  /\ \A i \in DOMAIN terms :
       terms[i].kind = "served" => terms[i].offset.n >= 0

(***************************************************************************)
(* C5.  freshness_function looks up the interval that holds the offset.    *)
(***************************************************************************)
WellFormed(f) ==
  /\ Len(f) >= 1
  /\ f[Len(f)].hi = Inf
  /\ \A i \in 1..(Len(f) - 1) : f[i].hi = Fin(f[i + 1].lo) /\ f[i].lo < f[i + 1].lo

InInterval(x, iv) == ~x.inf /\ iv.lo <= x.n /\ (iv.hi.inf \/ x.n < iv.hi.n)

\* C5: for a well-formed list and a finite offset at or above the first
\* start, the score returned is that of the one interval with
\* lo <= offset < hi; an offset equal to a boundary gets the score of the
\* interval that starts there.
C5_Lookup ==
  (/\ fcall.called
   /\ WellFormed(fcall.list)
   /\ ~fcall.offset.inf
   /\ fcall.offset.n >= fcall.list[1].lo) =>
     /\ \E i \in DOMAIN fcall.list :
          /\ InInterval(fcall.offset, fcall.list[i])
          /\ \A j \in DOMAIN fcall.list :
               InInterval(fcall.offset, fcall.list[j]) => j = i
          /\ fcall.score = fcall.list[i].score
     /\ \A i \in DOMAIN fcall.list :
          fcall.offset.n = fcall.list[i].lo => fcall.score = fcall.list[i].score

\* The offset 5 on [(0,5,100),(5,inf,0)] scored 0.
C5_Witness ==
  /\ fcall.called
  /\ fcall.list = parse_freshness(FreshPairs1)
  /\ fcall.offset = Fin(5)
  /\ fcall.score = 0

(***************************************************************************)
(* C6.  Orders in no sequence are unserved.                                *)
(***************************************************************************)
LastScore(f) == f[Len(f)].score

TermsOf(o) == {i \in DOMAIN terms : terms[i].order = o}

\* C6: arrival_times reports "unserved" for exactly the orders that are in
\* no bot's sequence, and evaluate scores each of them with the score of the
\* last interval of its freshness function.
C6_Unserved ==
  /\ Returned =>
       \A o \in OrderIds :
          /\ o \in DOMAIN arrival_t
          /\ IsUnserved(arrival_t[o]) <=> o \notin Served(solution)
  /\ (op = "evaluate" /\ pc = "done") =>
       \A o \in OrderIds :
          IF o \in Served(solution)
            THEN \A i \in TermsOf(o) : terms[i].kind = "served"
            ELSE /\ Cardinality(TermsOf(o)) = 1
                 /\ \A i \in TermsOf(o) :
                      /\ terms[i].kind = "unserved"
                      /\ terms[i].score = LastScore(inst.orders[o].freshness)

\* evaluate has finished on a solution that serves o1 and leaves o2 out.
C6_Witness ==
  /\ op = "evaluate"
  /\ pc = "done"
  /\ Served(solution) = {"o1"}
  /\ arrival_t["o2"] = UNSERVED
  /\ ~IsUnserved(arrival_t["o1"])

(***************************************************************************)
(* C7.  The total is the sum of the orders' scores.                        *)
(***************************************************************************)
OrderScore(o) ==
  IF IsUnserved(arrival_t[o])
    THEN freshness_function(Inf, inst.orders[o].freshness)
    ELSE freshness_function(Fin(strptime(arrival_t[o]) - inst.orders[o].ready),
                            inst.orders[o].freshness)

\* C7: when no order is in the solution twice, the total evaluate computes
\* is the sum over the orders of the instance of the order's own score, one
\* term per order.
C7_Additive ==
  (op = "evaluate" /\ pc = "done" /\ NoDuplicates(solution)) =>
     /\ total_score = SumSeq([i \in DOMAIN OrderList |-> OrderScore(OrderList[i])])
     /\ \A o \in OrderIds : Cardinality(TermsOf(o)) = 1

\* evaluate has finished with one order served and one unserved, and both
\* count in the total.
C7_Witness ==
  /\ op = "evaluate"
  /\ pc = "done"
  /\ NoDuplicates(solution)
  /\ Served(solution) = {"o2"}
  /\ Len(terms) = 2
  /\ total_score > 0

(***************************************************************************)
(* C8.  The optimizers.                                                    *)
(***************************************************************************)
\* C8: the optimizer finishes without raising and has written a solution
\* that assigns every order at most once and scores at least as much as the
\* solution that serves nothing.
C8_Optimizer ==
  (op \in {"optimize_mip", "optimize_heuristic"} /\ pc \in {"done", "raised"}) =>
     /\ pc = "done"
     /\ output_file # <<>>
     /\ NoDuplicates(output_file[1])
     /\ EvaluateTotal(inst, output_file[1]) >= EvaluateTotal(inst, <<>>)

(***************************************************************************)
(* C9.  The value evaluate returns.                                        *)
(***************************************************************************)
\* C9: evaluate returns the total score, the value it prints.
C9_Returns ==
  (op = "evaluate" /\ pc = "done") =>
     /\ printed = <<total_score>>
     /\ ret = printed

(***************************************************************************)
(* C10.  Replaying the instruction file.                                   *)
(***************************************************************************)
\* Replaying a script: where the bot stands at each collect and deliver.
RECURSIVE Replay(_, _, _)
Replay(lines, bot, pos) ==
  IF lines = <<>> THEN <<>>
  ELSE LET l == Head(lines) IN
       IF l[1] = "[]" THEN Replay(Tail(lines), l[2], inst.bots[l[2]])
       ELSE IF l[1] = "go to" THEN Replay(Tail(lines), bot, l[2])
       ELSE << <<bot, l[1], pos>> >> \o Replay(Tail(lines), bot, pos)

RECURSIVE ExpectedOf(_, _)
ExpectedOf(bot, seq) ==
  IF seq = <<>> THEN <<>>
  ELSE << <<bot, "collect food", inst.orders[Head(seq)].restaurant>>,
          <<bot, "deliver food", inst.orders[Head(seq)].customer>> >>
       \o ExpectedOf(bot, Tail(seq))

RECURSIVE Expected(_)
Expected(sol) ==
  IF sol = <<>> THEN <<>>
  ELSE ExpectedOf(Head(sol)[1], Head(sol)[2]) \o Expected(Tail(sol))

\* C10: when every needed path exists, instruction_file finishes, and the
\* replay of what it wrote stands on the restaurant of the k-th order at the
\* k-th collect and on its customer at the k-th deliver, for every bot.
C10_RoundTrip ==
  (/\ op = "instruction_file"
   /\ pc \in {"done", "raised"}
   /\ PathsExist(inst, solution)) =>
     /\ pc = "done"
     /\ Replay(script, "none", "none") = Expected(solution)

\* The same, for basic.py run as the main program only.
RoundTripAsMain ==
  (/\ op = "instruction_file"
   /\ pc \in {"done", "raised"}
   /\ inst_global # <<>>
   /\ PathsExist(inst, solution)) =>
     /\ pc = "done"
     /\ Replay(script, "none", "none") = Expected(solution)

(***************************************************************************)
(* C11.  Arrivals past the end of the horizon.                             *)
(***************************************************************************)
\* The record arrival_times printed for order o (one, without repetitions).
LogOf(o) == {i \in DOMAIN log : log[i].order = o}

\* C11: the arrival recorded for a served order is the computed clock
\* value, never clamped to the horizon, however far past its end; and the
\* offset evaluate scores is the number of minutes from the ready time of the
\* order to that arrival.
C11_Literal ==
  NoDuplicates(solution) =>
    /\ \A i \in DOMAIN log : log[i].recorded = strftime(log[i].arrive)
    /\ \A j \in DOMAIN terms :
         terms[j].kind = "served" =>
           \A i \in LogOf(terms[j].order) :
              terms[j].offset = Fin(log[i].arrive - log[i].ready)

\* The same, for the runs whose arrivals stay within the day they started.
LiteralWithinDay ==
  (NoDuplicates(solution) /\ \A i \in DOMAIN log : log[i].arrive < 24 * 60) =>
    /\ \A i \in DOMAIN log : log[i].recorded = strftime(log[i].arrive)
    /\ \A j \in DOMAIN terms :
         terms[j].kind = "served" =>
           \A i \in LogOf(terms[j].order) :
              terms[j].offset = Fin(log[i].arrive - log[i].ready)

(***************************************************************************)
(* C12.  Time never runs backward within one bot's simulation.             *)
(***************************************************************************)
\* The successive values of time_dt while one order is served.
Checkpoints(e) == <<e.t0, e.reach, e.enter, e.wait, e.exit, e.arrive, e.free>>

NonDecreasing(q) == \A k \in 1..(Len(q) - 1) : q[k] <= q[k + 1]

\* C12: the checkpoints of an order (start, reach the restaurant, enter,
\* wait for ready, exit, reach the customer, finish the delivery) never
\* decrease, and the next order of the same bot starts no earlier than the
\* previous one finished; time_dt is the last checkpoint.
C12_Monotonic ==
  /\ \A i \in DOMAIN log : NonDecreasing(Checkpoints(log[i]))
  /\ \A i \in DOMAIN log :
       (i > 1 /\ log[i - 1].bot = log[i].bot) => log[i - 1].free <= log[i].t0
  /\ (log # <<>> /\ pc \in {"at_bot", "at_order"}) => time_dt = log[Len(log)].free

\* A bot has served two orders in a row, and had to wait for the first.
C12_Witness ==
  /\ Len(log) = 2
  /\ log[1].bot = log[2].bot
  /\ log[1].enter < log[1].wait
  /\ log[1].free <= log[2].t0

(***************************************************************************)
(* C13.  One score term per order, whatever the solution.                  *)
(***************************************************************************)
\* C13: for every solution, also one that names an order more than once,
\* evaluate adds exactly one term per order of the instance, and a served
\* order has a single computed arrival, the one its term is scored from.
C13_OneTermPerOrder ==
  (op = "evaluate" /\ pc = "done") =>
     \A o \in OrderIds :
        /\ Cardinality(TermsOf(o)) = 1
        /\ Cardinality(LogOf(o)) <= 1
        /\ \A j \in TermsOf(o) : \A i \in LogOf(o) :
             terms[j].offset = Fin(strptime(log[i].recorded) - log[i].ready)

====
